---- MODULE Spec2Model ----
(***************************************************************************)
(* VectorDBService (app/services/vector_db.py): the FAISS-backed review    *)
(* index, its two snapshot artifacts (<path>.faiss, <path>.meta), the      *)
(* legacy <path>.pkl file that _load_index reads, and the per-request      *)
(* construction of the service (app/api/dependencies.py).                  *)
(*                                                                         *)
(* Specifications: Spec (one instance, every call of its interface),       *)
(* SpecDisk (constructions and file-system faults), SpecSearch (searches   *)
(* on populated instances), SpecThreads (add_reviews statement by          *)
(* statement beside searches) and SpecRequests (the scrape and search      *)
(* routes, one instance per request).                                      *)
(*                                                                         *)
(* Floats are fixed-point: a vector component counts tenths (1.0 is 10), a *)
(* score, a sum of products of components, counts hundredths (1.0 is 100). *)
(* A float is a record [nan, val], a vector is a pair of floats.  FAISS    *)
(* labels are 0-based in the code and 1-based here; the invalid label      *)
(* stays -1.                                                               *)
(***************************************************************************)
EXTENDS Integers, Sequences, FiniteSets, TLC

\* ------------------------------------------------------------- bounds --
MaxSlots == 2
MaxBatch == 2
MaxK == 2

\* ---------------------------------------------------------- constants --
Sentinel == -1

Ids == {1, 2}
Texts == {"great", "awful", "void"}

\* the (id, text) pairs callers add: the reviews of the relational store,
\* where an id has one description, and with them an id under a second
\* text and a text whose embedding is the zero vector
Stored == {<<1, "great">>, <<2, "awful">>}
Catalogue == Stored \cup {<<1, "awful">>, <<2, "void">>}

Min(a, b) == IF a < b THEN a ELSE b

SeqsUpTo(S, n) == UNION {[1..m -> S] : m \in 0..n}

\* ------------------------------------------------------------- floats --
NaN == [nan |-> TRUE, val |-> 0]
F(v) == [nan |-> FALSE, val |-> v]

\* numpy true division: x / 0 with x = 0 is nan (a RuntimeWarning, no raise)
FDiv(a, n) == IF n = 0 THEN NaN ELSE F((a * 10) \div n)

FAdd(a, b) == IF a.nan \/ b.nan THEN NaN ELSE F(a.val + b.val)
FMul(a, b) == IF a.nan \/ b.nan THEN NaN ELSE F(a.val * b.val)

\* np.linalg.norm of one row (the rows of Encode have integer norms)
Norm(raw) ==
    LET sq == raw[1] * raw[1] + raw[2] * raw[2]
    IN  CHOOSE n \in 0..sq : n * n = sq

\* SentenceTransformer.encode of one text: the raw embedding
Encode(text) ==
    CASE text = "great" -> <<3, 4>>
      [] text = "awful" -> <<4, -3>>
      [] OTHER -> <<0, 0>>

\* embeddings / np.linalg.norm(embeddings, axis=1, keepdims=True), one row
Normalize(raw) == <<FDiv(raw[1], Norm(raw)), FDiv(raw[2], Norm(raw))>>

Embed(texts) == [j \in 1..Len(texts) |-> Normalize(Encode(texts[j]))]

\* IndexFlatIP metric
InnerProduct(u, v) == FAdd(FMul(u[1], v[1]), FMul(u[2], v[2]))

\* -------------------------------------------------------------- state --
VARIABLES
    review_ids,     \* self.review_ids
    review_texts,   \* self.review_texts
    index,          \* self.index: the vectors of the IndexFlatIP, by slot
    faiss_file,     \* <index_path>.faiss
    meta_file,      \* <index_path>.meta
    ret,            \* the last call on the service and its outcome
    adding,         \* the add_reviews call in progress on another thread
    response        \* the HTTP response of the request handled last

vars == <<review_ids, review_texts, index, faiss_file, meta_file, ret,
          adding, response>>
mem == <<review_ids, review_texts, index>>
disk == <<faiss_file, meta_file>>

NoFile == [exists |-> FALSE, ok |-> FALSE, vectors |-> <<>>,
           review_ids |-> <<>>, review_texts |-> <<>>]
FaissFile(idx) == [exists |-> TRUE, ok |-> TRUE, vectors |-> idx,
                   review_ids |-> <<>>, review_texts |-> <<>>]
MetaFile(ids, texts) == [exists |-> TRUE, ok |-> TRUE, vectors |-> <<>>,
                         review_ids |-> ids, review_texts |-> texts]
\* a file that exists but cannot be read back (truncated, not a pickle)
BadFile == [exists |-> TRUE, ok |-> FALSE, vectors |-> <<>>,
            review_ids |-> <<>>, review_texts |-> <<>>]

\* what the deployment may hold at <index_path>.pkl: nothing, an unreadable
\* pickle, or a legacy dict with review_ids / review_texts
PklStates == {NoFile, BadFile, MetaFile(<<1>>, <<"great">>)}

NoFilter == [given |-> FALSE, ids |-> {}]
Filter(S) == [given |-> TRUE, ids |-> S]

\* the outcome of a call. details: "" for a normal return, else what made the
\* call raise (the details of the VectorDBException); a call that returns
\* is recorded with its arguments and its result
Return(op, details) ==
    [op |-> op, raised |-> details # "", details |-> details,
     pkl |-> NoFile, ids |-> <<>>, texts |-> <<>>, review_id |-> 0,
     result |-> FALSE, results |-> <<>>,
     query |-> "", k |-> 0, filter_ids |-> NoFilter]

\* no add_reviews call is between two of its statements
Idle == [pc |-> "idle", ids |-> <<>>, texts |-> <<>>]

\* the service was called directly, or the handler has not answered yet
NoResponse == [route |-> "", status |-> 0, product_id |-> 0, reviews |-> <<>>]

\* ---------------------------------------------------------- _save_index --
\* fault: where _save_index raises, "" when it does not.
\*   "faiss": os.makedirs or faiss.write_index raises, nothing is written
\*   "open" : open(<path>.meta, "wb") raises after the .faiss was written
\*   "dump" : pickle.dump raises after open(.., "wb") truncated the .meta
SaveFaults == {"", "faiss", "open", "dump"}
NoFaults == {""}

_save_index_faiss(idx, fault, old) ==
    IF fault = "faiss" THEN old ELSE FaissFile(idx)

_save_index_meta(ids, texts, fault, old) ==
    CASE fault = "" -> MetaFile(ids, texts)
      [] fault = "dump" -> BadFile
      [] OTHER -> old

\* variant: the except clause logs the error and does not re-raise
_save_index_swallows(fault) == FALSE

\* the exception leaving _save_index: it re-raises what it caught
_save_index_raises(fault) == fault # ""

\* ---------------------------------------------------------- _load_index --
\* variant: __init__ assigns self.vectorizer, the legacy load goes through
HasVectorizerSet == TRUE

\* __init__ never assigns self.vectorizer, so reading it as the default of
\* metadata.get("vectorizer", self.vectorizer) raises AttributeError
HasVectorizer == FALSE

Fresh == [review_ids |-> <<>>, review_texts |-> <<>>]

_load_index(pkl) ==
    IF ~pkl.exists
    THEN Fresh
    ELSE IF ~pkl.ok
         THEN Fresh
         ELSE LET loaded == [review_ids |-> pkl.review_ids,
                             review_texts |-> pkl.review_texts]
              IN  IF HasVectorizer THEN loaded ELSE Fresh

\* ------------------------------------------------------------- __init__ --
\* pkl: what the deployment holds at <index_path>.pkl when __init__ runs
\* (the service never writes that file)
__init__(pkl) ==
    /\ index' = <<>>
    /\ review_ids' = _load_index(pkl).review_ids
    /\ review_texts' = _load_index(pkl).review_texts
    /\ ret' = [Return("__init__", "") EXCEPT !.pkl = pkl]
    /\ UNCHANGED disk

\* get_vector_db_service: every request constructs a new VectorDBService
Construct ==
    /\ \E pkl \in PklStates : __init__(pkl)
    /\ response' = NoResponse
    /\ UNCHANGED adding

\* ---------------------------------------------------------- add_reviews --
Added(ids, texts) ==
    [Return("add_reviews", "") EXCEPT !.ids = ids, !.texts = texts]

\* faiss index.add: the rows go to the next free slots
IndexAdd(idx, rows) == idx \o rows

\* variant: the items are inserted at the head of the list
ExtendFront(list, items) == items \o list

\* list.extend
Extend(list, items) == list \o items

\* variant: the metadata is stored before the embeddings are generated
add_reviews_store_first(ids, texts, encodeOk, fault) ==
    IF ids = <<>> \/ texts = <<>>
    THEN /\ ret' = Added(ids, texts)
         /\ UNCHANGED <<mem, disk>>
    ELSE IF ~encodeOk
    THEN /\ review_ids' = Extend(review_ids, ids)
         /\ review_texts' = Extend(review_texts, texts)
         /\ ret' = Return("add_reviews", "encode")
         /\ UNCHANGED <<index, disk>>
    ELSE /\ index' = IndexAdd(index, Embed(texts))
         /\ review_ids' = Extend(review_ids, ids)
         /\ review_texts' = Extend(review_texts, texts)
         /\ faiss_file' = _save_index_faiss(index', fault, faiss_file)
         /\ meta_file' = _save_index_meta(review_ids', review_texts', fault, meta_file)
         /\ ret' = IF _save_index_raises(fault)
                   THEN Return("add_reviews", "save")
                   ELSE Added(ids, texts)

\* variant: no early return for empty input
add_reviews_no_guard(ids, texts, encodeOk, fault) ==
    IF ~encodeOk
    THEN /\ ret' = Return("add_reviews", "encode")
         /\ UNCHANGED <<mem, disk>>
    ELSE /\ index' = IndexAdd(index, Embed(texts))
         /\ review_ids' = Extend(review_ids, ids)
         /\ review_texts' = Extend(review_texts, texts)
         /\ faiss_file' = _save_index_faiss(index', fault, faiss_file)
         /\ meta_file' = _save_index_meta(review_ids', review_texts', fault, meta_file)
         /\ ret' = IF _save_index_raises(fault)
                   THEN Return("add_reviews", "save")
                   ELSE Added(ids, texts)

add_reviews(ids, texts, encodeOk, fault) ==
    IF ids = <<>> \/ texts = <<>>
    THEN /\ ret' = Added(ids, texts)
         /\ UNCHANGED <<mem, disk>>
    ELSE IF ~encodeOk
    THEN /\ ret' = Return("add_reviews", "encode")
         /\ UNCHANGED <<mem, disk>>
    ELSE /\ index' = IndexAdd(index, Embed(texts))
         /\ review_ids' = Extend(review_ids, ids)
         /\ review_texts' = Extend(review_texts, texts)
         /\ faiss_file' = _save_index_faiss(index', fault, faiss_file)
         /\ meta_file' = _save_index_meta(review_ids', review_texts', fault, meta_file)
         /\ ret' = IF _save_index_raises(fault)
                   THEN Return("add_reviews", "save")
                   ELSE Added(ids, texts)

IdsOf(batch) == [j \in 1..Len(batch) |-> batch[j][1]]
TextsOf(batch) == [j \in 1..Len(batch) |-> batch[j][2]]

\* callers pass one text per id (data_service: [review.id], [description])
AddReviews(reviews, faults) ==
    \E batch \in SeqsUpTo(reviews, MaxBatch) :
      \E encodeOk \in BOOLEAN, fault \in faults :
        /\ Len(index) + Len(batch) <= MaxSlots
        /\ ~encodeOk => fault = ""
        /\ add_reviews(IdsOf(batch), TextsOf(batch), encodeOk, fault)
        /\ response' = NoResponse
        /\ UNCHANGED adding

\* -------------------------------------------------------- remove_review --
\* variant: the last position holding x
IndexOfLast(seq, x) == CHOOSE j \in 1..Len(seq) :
                          seq[j] = x /\ \A h \in (j + 1)..Len(seq) : seq[h] # x

\* list.index: the first position holding x
IndexOf(seq, x) == CHOOSE j \in 1..Len(seq) :
                      seq[j] = x /\ \A h \in 1..(j - 1) : seq[h] # x

Contains(seq, x) == \E j \in 1..Len(seq) : seq[j] = x

\* variant: del list[idx]
DelItem(list, idx, value) ==
    SubSeq(list, 1, idx - 1) \o SubSeq(list, idx + 1, Len(list))

\* list[idx] = value
SetItem(list, idx, value) == [list EXCEPT ![idx] = value]

remove_review(review_id) ==
    IF ~Contains(review_ids, review_id)
    THEN /\ ret' = [Return("remove_review", "") EXCEPT !.review_id = review_id,
                                                        !.result = FALSE]
         /\ UNCHANGED <<mem, disk>>
    ELSE LET idx == IndexOf(review_ids, review_id)
         IN  /\ review_ids' = SetItem(review_ids, idx, Sentinel)
             /\ review_texts' = SetItem(review_texts, idx, "")
             /\ ret' = [Return("remove_review", "") EXCEPT !.review_id = review_id,
                                                            !.result = TRUE]
             /\ UNCHANGED <<index, disk>>

RemoveReview ==
    /\ \E review_id \in Ids \cup {Sentinel} : remove_review(review_id)
    /\ response' = NoResponse
    /\ UNCHANGED adding

\* ---------------------------------------------------------- clear_index --
\* fault: the os.remove that raises, "" when none does; a file that does
\* not exist is not removed, so its os.remove cannot raise
ClearFaults == {"", "faiss", "meta"}

\* variant: the file is left in place
os_remove_skipped(file) == file

\* os.remove
os_remove(file) == NoFile

clear_index(fault) ==
    /\ fault = "faiss" => faiss_file.exists
    /\ fault = "meta" => meta_file.exists
    /\ index' = <<>>
    /\ review_ids' = <<>>
    /\ review_texts' = <<>>
    /\ faiss_file' = IF faiss_file.exists /\ fault # "faiss"
                      THEN os_remove(faiss_file) ELSE faiss_file
    /\ meta_file' = IF meta_file.exists /\ fault = ""
                     THEN os_remove(meta_file) ELSE meta_file
    /\ ret' = Return("clear_index", IF fault = "" THEN "" ELSE "remove")

ClearIndex(faults) ==
    /\ \E fault \in faults : clear_index(fault)
    /\ response' = NoResponse
    /\ UNCHANGED adding

\* ------------------------------------------------------------ get_stats --
\* variant: every slot counts
LiveAll(ids) == 1..Len(ids)

\* the slots `rid != -1` keeps
Live(ids) == {j \in 1..Len(ids) : ids[j] # Sentinel}

get_stats == [total_reviews |-> Cardinality(Live(review_ids)),
              total_vectors |-> Len(index)]

\* ------------------------------------------------------- search_reviews --
\* score of a slot against the normalized query embedding
Score(q, slot) == InnerProduct(q, index[slot])

\* IndexFlatIP keeps a candidate only when its score compares greater than
\* the heap's threshold: a nan score never does
Comparable(q) == {slot \in 1..Len(index) : ~Score(q, slot).nan}

\* the slots of V with the greatest score
Best(q, V) == {v \in V : \A w \in V : Score(q, w).val <= Score(q, v).val}

\* self.index.search(q, k=n): the n best slots by descending score, ties
\* in any order, padded with the label -1 when fewer slots qualify
RECURSIVE TopN(_, _, _)
TopN(q, V, n) ==
    IF n = 0 THEN {<<>>}
    ELSE IF V = {} THEN {[j \in 1..n |-> -1]}
    ELSE UNION {{<<v>> \o rest : rest \in TopN(q, V \ {v}, n - 1)} :
                  v \in Best(q, V)}

IndexSearch(q, n) == TopN(q, Comparable(q), n)

\* variant: the membership test is inverted
SkippedMembers(filter_ids, id) ==
    filter_ids.given /\ filter_ids.ids # {} /\ id \in filter_ids.ids

\* `if filter_ids and self.review_ids[i] not in filter_ids`
Skipped(filter_ids, id) ==
    filter_ids.given /\ filter_ids.ids # {} /\ id \notin filter_ids.ids

Hit(q, slot) == [id |-> review_ids[slot], score |-> Score(q, slot).val,
                 text |-> review_texts[slot]]

\* variant: the hit goes to the head of the list
PrependHit(results, hit) == <<hit>> \o results

\* results.append
AppendHit(results, hit) == Append(results, hit)

\* variant: `>` for `>=`
FullAbove(results, k) == Len(results) > k

\* `if len(results) >= k: break`
Full(results, k) == Len(results) >= k

\* list[slot] raises IndexError past the end of the list
InRange(list, slot) == slot <= Len(list)

\* the loop ran to its end or to its break
Collected(results) == [raised |-> FALSE, results |-> results]

\* an IndexError left the loop
IndexError == [raised |-> TRUE, results |-> <<>>]

\* the loop over zip(indices[0], scores[0]) from candidate j on; the filter
\* test reads review_ids[i] when filter_ids is a non-empty list, the tuple
\* reads review_ids[i] and review_texts[i]
RECURSIVE Collect(_, _, _, _, _, _)
Collect(q, c, j, k, filter_ids, results) ==
    IF j > Len(c) THEN Collected(results)
    ELSE IF c[j] < 0 THEN Collect(q, c, j + 1, k, filter_ids, results)
    ELSE IF ~InRange(review_ids, c[j])
         THEN IndexError
    ELSE IF Skipped(filter_ids, review_ids[c[j]])
         THEN Collect(q, c, j + 1, k, filter_ids, results)
    ELSE IF ~InRange(review_texts, c[j])
         THEN IndexError
    ELSE LET more == AppendHit(results, Hit(q, c[j]))
         IN  IF Full(more, k) THEN Collected(more)
             ELSE Collect(q, c, j + 1, k, filter_ids, more)

Searched(query, k, filter_ids, results) ==
    [Return("search_reviews", "") EXCEPT !.query = query, !.k = k,
        !.filter_ids = filter_ids, !.results = results]

search_reviews(query, k, filter_ids, encodeOk) ==
    /\ UNCHANGED <<mem, disk>>
    /\ IF ~encodeOk
       THEN ret' = Return("search_reviews", "encode")
       ELSE IF Len(review_ids) = 0
       THEN ret' = Searched(query, k, filter_ids, <<>>)
       ELSE LET q == Normalize(Encode(query))
            IN  \E c \in IndexSearch(q, Min(k * 2, Len(review_ids))) :
                  LET got == Collect(q, c, 1, k, filter_ids, <<>>)
                  IN  ret' = IF got.raised
                             THEN Return("search_reviews", "IndexError")
                             ELSE Searched(query, k, filter_ids, got.results)

\* filter_ids: None, [], one id, every id
Filters == {NoFilter, Filter({}), Filter({2}), Filter(Ids)}

Queries == {"great", "void"}

SearchReviews ==
    /\ \E query \in Queries, k \in 1..MaxK, filter_ids \in Filters :
         \E encodeOk \in BOOLEAN :
           search_reviews(query, k, filter_ids, encodeOk)
    /\ response' = NoResponse
    /\ UNCHANGED adding

\* -------------------------------------------------------------- threads --
\* add_reviews of a non-empty batch that embeds, statement by statement, as
\* a thread runs it while other threads call the same instance; adding.pc
\* names the statement that ran last
AddIndex ==
    /\ adding = Idle
    /\ \E batch \in SeqsUpTo(Stored, MaxBatch) \ {<<>>} :
         /\ Len(index) + Len(batch) <= MaxSlots
         /\ index' = IndexAdd(index, Embed(TextsOf(batch)))
         /\ adding' = [pc |-> "index.add", ids |-> IdsOf(batch),
                                            texts |-> TextsOf(batch)]
    /\ UNCHANGED <<review_ids, review_texts, disk, ret, response>>

AddIds ==
    /\ adding.pc = "index.add"
    /\ review_ids' = Extend(review_ids, adding.ids)
    /\ adding' = [adding EXCEPT !.pc = "review_ids.extend"]
    /\ UNCHANGED <<index, review_texts, disk, ret, response>>

AddTexts ==
    /\ adding.pc = "review_ids.extend"
    /\ review_texts' = Extend(review_texts, adding.texts)
    /\ adding' = [adding EXCEPT !.pc = "review_texts.extend"]
    /\ UNCHANGED <<index, review_ids, disk, ret, response>>

\* _save_index and the return
AddSave ==
    /\ adding.pc = "review_texts.extend"
    /\ faiss_file' = _save_index_faiss(index, "", faiss_file)
    /\ meta_file' = _save_index_meta(review_ids, review_texts, "", meta_file)
    /\ ret' = Added(adding.ids, adding.texts)
    /\ adding' = Idle
    /\ UNCHANGED <<mem, response>>

\* ------------------------------------------------------------- requests --
\* the relational store: review 1 belongs to product 1, review 2 to
\* product 2, product 3 has no review; a request without product_id
\* carries 0
Products == {1, 2, 3}
ProductOf(review_id) == review_id

\* db.query(Review.id).filter(Review.product_id == product_id).all()
ReviewsOf(product_id) ==
    {review[1] : review \in {s \in Stored : ProductOf(s[1]) = product_id}}

\* filter_ids stays None unless the request names a product
ProductFilter(product_id) ==
    IF product_id = 0 THEN NoFilter ELSE Filter(ReviewsOf(product_id))

\* db.query(Review).filter(Review.id == review_id).first()
KnownReview(review_id) == \E review \in Stored : review[1] = review_id

\* variant: one VectorDBService instance serves every request
SharedInstance == TRUE

\* Depends(get_vector_db_service): the handler is given an instance that
\* was constructed for its request and has answered no call yet
FreshInstance == ret.op = "__init__"

\* the reviews of the response body, by id
ReviewResponses(results) ==
    LET known == SelectSeq(results, LAMBDA hit : KnownReview(hit.id))
    IN  [j \in 1..Len(known) |-> known[j].id]

\* SearchResponse, or the HTTPException of the handler's except clause
SearchResponse(product_id, r) ==
    [NoResponse EXCEPT !.route = "search_reviews",
                       !.product_id = product_id,
                       !.status = IF r.raised THEN 500 ELSE 200,
                       !.reviews = IF r.raised THEN <<>>
                                   ELSE ReviewResponses(r.results)]

\* POST /search/reviews and GET /search/reviews (no sentiment filter)
SearchEndpoint ==
    /\ FreshInstance
    /\ \E query \in Queries, product_id \in {0} \cup Products, limit \in 1..MaxK :
         \E encodeOk \in BOOLEAN :
           /\ search_reviews(query, limit, ProductFilter(product_id), encodeOk)
           /\ response' = SearchResponse(product_id, ret')
    /\ UNCHANGED adding

ScrapeResponse(status) ==
    [NoResponse EXCEPT !.route = "scrape_product", !.status = status]

\* POST /products/scrape of a product with one review.
\*   scraped : get_product_info returned (else ScrapingException, 400)
\*   existing: the review is in the relational store already and is
\*             returned as it is, without a call of add_reviews
\* A new review is flushed and handed to add_reviews inside a try block
\* whose except clause logs a warning; the request answers "completed".
ScrapeProduct ==
    /\ FreshInstance
    /\ Len(index) < MaxSlots
    /\ \E review \in Stored, scraped \in BOOLEAN, existing \in BOOLEAN :
         \E encodeOk \in BOOLEAN, fault \in SaveFaults :
           /\ (~scraped \/ existing) => (encodeOk /\ fault = "")
           /\ ~encodeOk => fault = ""
           /\ IF ~scraped
              THEN /\ response' = ScrapeResponse(400)
                   /\ UNCHANGED <<mem, disk, ret>>
              ELSE IF existing
              THEN /\ response' = ScrapeResponse(200)
                   /\ UNCHANGED <<mem, disk, ret>>
              ELSE /\ add_reviews(<<review[1]>>, <<review[2]>>, encodeOk, fault)
                   /\ response' = ScrapeResponse(200)
    /\ UNCHANGED adding

\* ------------------------------------------------------- specifications --
Init ==
    /\ faiss_file = NoFile
    /\ meta_file = NoFile
    /\ adding = Idle
    /\ response = NoResponse
    /\ \E pkl \in PklStates :
          /\ index = <<>>
          /\ review_ids = _load_index(pkl).review_ids
          /\ review_texts = _load_index(pkl).review_texts
          /\ ret = [Return("__init__", "") EXCEPT !.pkl = pkl]

\* the service across requests and file-system faults
NextDisk ==
    \/ Construct
    \/ AddReviews(Stored, SaveFaults)
    \/ RemoveReview
    \/ ClearIndex(ClearFaults)

SpecDisk == Init /\ [][NextDisk]_vars

\* remove_review marks the first slot holding an id: a slot can be removed
\* only when every earlier slot of the same id is
Removable(batch, removed) ==
    \A j \in removed : \A h \in 1..(j - 1) :
        batch[h][1] = batch[j][1] => h \in removed

Max(S) == CHOOSE j \in S : \A h \in S : h <= j

\* the last call that led to the populated instance
Populated(batch, removed) ==
    IF batch = <<>> THEN [Return("__init__", "") EXCEPT !.pkl = NoFile]
    ELSE IF removed = {}
    THEN Added(<<batch[Len(batch)][1]>>, <<batch[Len(batch)][2]>>)
    ELSE [Return("remove_review", "") EXCEPT
              !.review_id = batch[Max(removed)][1], !.result = TRUE]

\* an instance after add_reviews of the reviews of a batch, one per call,
\* and remove_review of some of them: one slot more than MaxSlots, so that
\* an index can hold more slots than the 2k candidates of a search
InitPopulated ==
    /\ adding = Idle
    /\ response = NoResponse
    /\ \E batch \in SeqsUpTo(Stored, MaxSlots + 1) :
         \E removed \in SUBSET (1..Len(batch)) :
           /\ Removable(batch, removed)
           /\ index = Embed(TextsOf(batch))
           /\ review_ids = [j \in 1..Len(batch) |->
                               IF j \in removed THEN Sentinel ELSE batch[j][1]]
           /\ review_texts = [j \in 1..Len(batch) |->
                                 IF j \in removed THEN "" ELSE batch[j][2]]
           /\ faiss_file = IF batch = <<>> THEN NoFile ELSE FaissFile(index)
           /\ meta_file = IF batch = <<>> THEN NoFile
                          ELSE MetaFile(IdsOf(batch), TextsOf(batch))
           /\ ret = Populated(batch, removed)

\* search_reviews on every populated instance
NextSearch == SearchReviews

SpecSearch == InitPopulated /\ [][NextSearch]_vars

\* one instance called from two threads: one adds, one searches
NextThreads ==
    \/ AddIndex
    \/ AddIds
    \/ AddTexts
    \/ AddSave
    \/ SearchReviews

SpecThreads == Init /\ [][NextThreads]_vars

\* the HTTP requests of one process: each is given its own instance
NextRequests ==
    \/ Construct
    \/ ScrapeProduct
    \/ SearchEndpoint

SpecRequests == Init /\ [][NextRequests]_vars

\* one service instance under every call of its interface
Next ==
    \/ AddReviews(Catalogue, NoFaults)
    \/ SearchReviews
    \/ RemoveReview
    \/ ClearIndex(NoFaults)

Spec == Init /\ [][Next]_vars

\* ============================================================== claims ==
ResultIds(r) == {r.results[j].id : j \in 1..Len(r.results)}

\* C1: in every state reached by constructions, add_reviews, remove_review
\* and clear_index, review_ids, review_texts and the index hold the same
\* number of entries.
C1_Lockstep ==
    /\ Len(review_ids) = Len(review_texts)
    /\ Len(review_texts) = Len(index)

C1_Witness ==
    /\ Len(index) = 2
    /\ review_ids[1] = Sentinel
    /\ review_ids[2] # Sentinel

\* C2: an add_reviews that returns from a non-empty call appends the given
\* ids and texts, in input order, after the existing slots, adds as many
\* vectors, and leaves every earlier slot as it was.
C2_AddAppends ==
    [][(ret'.op = "add_reviews" /\ ~ret'.raised /\ ret'.ids # <<>>) =>
          /\ review_ids' = review_ids \o ret'.ids
          /\ review_texts' = review_texts \o ret'.texts
          /\ Len(index') = Len(index) + Len(ret'.ids)
          /\ SubSeq(index', 1, Len(index)) = index]_vars

C2_Witness ==
    /\ ret.op = "add_reviews" /\ ~ret.raised
    /\ Len(ret.ids) = 1
    /\ Len(review_ids) = 2
    /\ review_ids[1] # review_ids[2]
    /\ review_texts[1] # review_texts[2]

\* C3: when the embedding call fails, add_reviews raises, and review_ids,
\* review_texts, the index and both snapshot artifacts are as before the call.
C3_EncodeFailureRejectsBatch ==
    [][(ret'.op = "add_reviews" /\ ret'.details = "encode") =>
          /\ ret'.raised
          /\ UNCHANGED <<review_ids, review_texts, index>>
          /\ UNCHANGED <<faiss_file, meta_file>>]_vars

C3_Witness ==
    /\ ret.op = "add_reviews" /\ ret.raised /\ ret.details = "encode"
    /\ Len(review_ids) = 1
    /\ meta_file.ok

\* C4: add_reviews never returns normally from a batch that holds a text
\* whose embedding has zero norm (it raises and stores nothing of the batch).
C4_ZeroNormRejected ==
    (ret.op = "add_reviews" /\ ~ret.raised) =>
        \A j \in 1..Len(ret.texts) : Norm(Encode(ret.texts[j])) # 0

\* C5: when add_reviews returns normally from a non-empty call, the .meta
\* artifact holds the current review_ids and review_texts and the .faiss
\* artifact the current vectors.
C5_SnapshotOnReturn ==
    (ret.op = "add_reviews" /\ ~ret.raised /\ ret.ids # <<>>) =>
        /\ meta_file = MetaFile(review_ids, review_texts)
        /\ faiss_file = FaissFile(index)

C5_Witness ==
    /\ ret.op = "add_reviews" /\ ~ret.raised
    /\ Len(ret.ids) = 1
    /\ Len(review_ids) = 2
    /\ meta_file.review_ids = review_ids

\* C6: an instance constructed on a path that holds a snapshot written by
\* _save_index starts with the ids, texts and vectors of that snapshot, and
\* get_stats counts as many live reviews as the snapshot holds.
C6_RoundTrip ==
    (/\ ret.op = "__init__"
     /\ faiss_file.ok /\ meta_file.ok
     /\ Len(faiss_file.vectors) = Len(meta_file.review_ids)) =>
        /\ review_ids = meta_file.review_ids
        /\ review_texts = meta_file.review_texts
        /\ index = faiss_file.vectors
        /\ get_stats.total_reviews = Cardinality(Live(meta_file.review_ids))

\* C7: construction never raises, whatever the files hold, and with no
\* usable snapshot (an artifact missing or unreadable) the instance starts
\* with no ids, no texts and no vectors.
SnapshotUnusable == ~faiss_file.ok \/ ~meta_file.ok

C7_ConstructionNeverFails ==
    ret.op = "__init__" =>
        /\ ~ret.raised
        /\ SnapshotUnusable =>
              (review_ids = <<>> /\ review_texts = <<>> /\ index = <<>>)

C7_Witness ==
    /\ ret.op = "__init__"
    /\ ret.pkl.ok
    /\ faiss_file.ok
    /\ meta_file = BadFile

\* C8: after remove_review(x) returned True, a search returns no result
\* with id x; stated for the search that follows the removal.
C8_RemovalExclusion ==
    [][(ret.op = "remove_review" /\ ret.result /\ ret'.op = "search_reviews") =>
          ret.review_id \notin ResultIds(ret')]_vars

\* C9: no search result comes from a removed slot: no result has the
\* sentinel id.
C9_NoSentinelResult ==
    ret.op = "search_reviews" => Sentinel \notin ResultIds(ret)

\* C10: with a non-empty filter_ids every returned id is in filter_ids.
C10_FilterCorrectness ==
    (ret.op = "search_reviews" /\ ret.filter_ids.given /\ ret.filter_ids.ids # {}) =>
        ResultIds(ret) \subseteq ret.filter_ids.ids

\* a filtered search that returned a hit although a slot outside the
\* filter scores higher
C10_Witness ==
    /\ ret.op = "search_reviews" /\ ~ret.raised
    /\ ret.filter_ids = Filter({2})
    /\ Len(ret.results) = 1
    /\ \E slot \in 1..Len(index) :
          /\ review_ids[slot] = 1
          /\ Score(Normalize(Encode(ret.query)), slot).val > ret.results[1].score

\* C11: a search called with k >= 1 returns at most k results.
C11_AtMostK ==
    ret.op = "search_reviews" => Len(ret.results) <= ret.k

\* a search that stopped at k although another candidate was left
C11_Witness ==
    /\ ret.op = "search_reviews" /\ ~ret.raised
    /\ ret.k = 1
    /\ ret.filter_ids = NoFilter
    /\ Len(ret.results) = 1
    /\ Len(review_ids) = 2

\* C12: the scores of the returned tuples are in non-increasing order.
C12_ScoresDescend ==
    ret.op = "search_reviews" =>
        \A j \in 1..(Len(ret.results) - 1) :
            ret.results[j].score >= ret.results[j + 1].score

C12_Witness ==
    /\ ret.op = "search_reviews" /\ ~ret.raised
    /\ Len(ret.results) = 2
    /\ ret.results[1].score > ret.results[2].score

\* C13: with no live entry (nothing added, cleared, or every entry removed)
\* a search whose query embeds returns the empty list and does not raise.
C13_EmptyWhenNoLive ==
    (/\ ret.op = "search_reviews"
     /\ ret.details # "encode"
     /\ Live(review_ids) = {}) =>
        (~ret.raised /\ ret.results = <<>>)

HoldsLive(ids, x) == x # Sentinel /\ \E j \in 1..Len(ids) : ids[j] = x

FirstSlot(ids, x) ==
    LET S == {j \in 1..Len(ids) : ids[j] = x}
    IN  CHOOSE j \in S : \A h \in S : j <= h

\* C14: remove_review of an id that no live slot holds returns False, does
\* not raise, and changes neither the lists, the index nor the artifacts.
C14_RemoveAbsent ==
    [][(ret'.op = "remove_review" /\ ~HoldsLive(review_ids, ret'.review_id)) =>
          /\ ~ret'.result
          /\ ~ret'.raised
          /\ UNCHANGED <<review_ids, review_texts, index>>
          /\ UNCHANGED <<faiss_file, meta_file>>]_vars

\* C15: remove_review of a live id returns True and changes the first slot
\* holding the id, and only it: its id becomes the sentinel and its text
\* empty; the slot count, the vectors and every other slot stay.
C15_RemoveMarksFirstSlot ==
    [][(ret'.op = "remove_review" /\ HoldsLive(review_ids, ret'.review_id)) =>
          LET first == FirstSlot(review_ids, ret'.review_id)
          IN  /\ ret'.result
              /\ review_ids' = [review_ids EXCEPT ![first] = Sentinel]
              /\ review_texts' = [review_texts EXCEPT ![first] = ""]
              /\ index' = index]_vars

\* the first of two slots holding the id was removed
C15_Witness ==
    /\ ret.op = "remove_review" /\ ret.result
    /\ Len(review_ids) = 2
    /\ review_ids[1] = Sentinel /\ review_texts[1] = ""
    /\ review_ids[2] = ret.review_id

\* C16: a remove_review(x) that directly follows a remove_review(x) that
\* returned True returns False and changes no slot.
C16_SecondRemoveNotFound ==
    [][(/\ ret.op = "remove_review" /\ ret.result
        /\ ret'.op = "remove_review" /\ ret'.review_id = ret.review_id) =>
          /\ ~ret'.result
          /\ UNCHANGED <<review_ids, review_texts, index>>]_vars

\* C17: when clear_index has returned, the lists and the index are empty,
\* get_stats counts no review and no vector, and neither artifact exists.
C17_ClearEmpties ==
    (ret.op = "clear_index" /\ ~ret.raised) =>
        /\ review_ids = <<>> /\ review_texts = <<>> /\ index = <<>>
        /\ get_stats.total_reviews = 0 /\ get_stats.total_vectors = 0
        /\ ~faiss_file.exists /\ ~meta_file.exists

C17_Witness ==
    /\ ret.op = "clear_index" /\ ~ret.raised
    /\ ~faiss_file.exists /\ ~meta_file.exists
    /\ index = <<>>

RemovedSlots == {j \in 1..Len(review_ids) : review_ids[j] = Sentinel}

\* C18: get_stats reports as total_reviews the slots whose id is not the
\* sentinel and as total_vectors the slots allocated; total_reviews is at
\* most total_vectors and they differ by the number of removed slots.
C18_Stats ==
    /\ get_stats.total_reviews = Len(review_ids) - Cardinality(RemovedSlots)
    /\ get_stats.total_vectors = Len(review_ids)
    /\ get_stats.total_reviews <= get_stats.total_vectors
    /\ get_stats.total_vectors - get_stats.total_reviews = Cardinality(RemovedSlots)

C18_Witness ==
    /\ Len(review_ids) = 2
    /\ Cardinality(RemovedSlots) = 1
    /\ get_stats.total_reviews = 1

\* C19: add_reviews([], []) returns normally whatever the embedder and the
\* file system would do, and changes neither the lists, the index nor the
\* artifacts.
C19_EmptyAddIsNoOp ==
    [][(\E encodeOk \in BOOLEAN, fault \in SaveFaults :
           add_reviews(<<>>, <<>>, encodeOk, fault)) =>
          /\ ret'.op = "add_reviews" /\ ~ret'.raised
          /\ UNCHANGED <<review_ids, review_texts, index>>
          /\ UNCHANGED <<faiss_file, meta_file>>]_vars

\* an empty call on a populated index whose snapshot is out of date
C19_Witness ==
    /\ ret.op = "add_reviews" /\ ~ret.raised /\ ret.ids = <<>>
    /\ Len(review_ids) >= 1
    /\ meta_file.ok /\ meta_file.review_ids # review_ids

\* C20: no two live slots hold the same id.
C20_LiveIdsUnique ==
    \A j, h \in Live(review_ids) : j # h => review_ids[j] # review_ids[h]

\* C22: when the snapshot write fails in add_reviews after the batch was
\* appended in memory, the failure is swallowed: add_reviews returns
\* normally and the entries of the batch are in the lists and the index.
C22_SaveFailureSwallowed ==
    [][\A batch \in SeqsUpTo(Stored, MaxBatch), fault \in SaveFaults \ {""} :
          (/\ batch # <<>>
           /\ add_reviews(IdsOf(batch), TextsOf(batch), TRUE, fault)) =>
             /\ ~ret'.raised
             /\ review_ids' = review_ids \o IdsOf(batch)
             /\ review_texts' = review_texts \o TextsOf(batch)
             /\ Len(index') = Len(index) + Len(batch)]_vars

\* C24: whenever both snapshot artifacts can be read, they describe the
\* same entries: the .faiss file holds as many vectors as the .meta file
\* holds ids.
C24_ArtifactsAgree ==
    (faiss_file.ok /\ meta_file.ok) =>
        Len(faiss_file.vectors) = Len(meta_file.review_ids)

\* C29: a remove_review that returns True lowers the live count of get_stats
\* by exactly one, one that returns False leaves it, for every id argument
\* (the sentinel -1 included).
C29_RemoveResultMatchesCount ==
    [][ret'.op = "remove_review" =>
          get_stats'.total_reviews =
              get_stats.total_reviews - (IF ret'.result THEN 1 ELSE 0)]_vars

\* C30: after remove_review returned True the metadata artifact equals
\* review_ids and review_texts, so it no longer lists the removed id.
C30_RemovalPersisted ==
    (ret.op = "remove_review" /\ ret.result) =>
        /\ meta_file.review_ids = review_ids
        /\ meta_file.review_texts = review_texts

\* C21: when add_reviews fails while a scrape request stores a review, the
\* request is answered with an error status, not as a success.
C21_AddFailureSurfaces ==
    (/\ response.route = "scrape_product"
     /\ ret.op = "add_reviews"
     /\ ret.raised) =>
        response.status >= 400

\* C25: a search request without product filter whose query is the text of
\* a review that an earlier request added and persisted returns that review.
C25_CrossRequestVisible ==
    (/\ response.route = "search_reviews"
     /\ response.status = 200
     /\ response.product_id = 0
     /\ meta_file.ok) =>
        \A j \in 1..Len(meta_file.review_ids) :
            meta_file.review_texts[j] = ret.query =>
                \E h \in 1..Len(response.reviews) :
                    response.reviews[h] = meta_file.review_ids[j]

\* C26: an add_reviews that returns keeps every (id, text) of the metadata
\* artifact it found on disk, over any sequence of instance constructions
\* and adds on one index path.
C26_AddKeepsPersisted ==
    [][(/\ ret'.op = "add_reviews"
        /\ ~ret'.raised
        /\ ret'.ids # <<>>
        /\ meta_file.ok) =>
          \A j \in 1..Len(meta_file.review_ids) :
              \E h \in 1..Len(meta_file'.review_ids) :
                  /\ meta_file'.review_ids[h] = meta_file.review_ids[j]
                  /\ meta_file'.review_texts[h] = meta_file.review_texts[j]]_vars

Matching(filter_ids) ==
    {j \in Live(review_ids) : review_ids[j] \in filter_ids.ids}

\* C28: a search with a non-empty filter_ids returns min(k, number of live
\* entries whose id is in filter_ids) results (checked where the live ids
\* are distinct and the query does not embed to the zero vector).
C28_FilteredComplete ==
    (/\ ret.op = "search_reviews" /\ ~ret.raised
     /\ ret.filter_ids.given /\ ret.filter_ids.ids # {}
     /\ ~Normalize(Encode(ret.query))[1].nan
     /\ C20_LiveIdsUnique) =>
        Len(ret.results) = Min(ret.k, Cardinality(Matching(ret.filter_ids)))

\* C23: with add_reviews and search_reviews running concurrently on one
\* instance, a search never runs on a half-appended slot: when it reads the
\* instance the index, review_ids and review_texts hold the same number of
\* entries, and it does not fail on a slot without id or text.
C23_SearchSeesWholeSlots ==
    [][(ret'.op = "search_reviews" /\ ret' # ret /\ ret'.details # "encode") =>
          /\ Len(index) = Len(review_ids)
          /\ Len(review_ids) = Len(review_texts)
          /\ ret'.details # "IndexError"]_vars

====
